---- MODULE Spec2Model ----
(***************************************************************************)
(* A model of src/main.py: signed transactions, proof-of-work sealed       *)
(* blocks, a LevelDB-backed block store and the chain validity walk.       *)
(*                                                                         *)
(* SHA-256 is modelled as an ideal hash: a digest is the pair of its       *)
(* preimage (so two digests are equal exactly when their preimages are)    *)
(* and the number of leading '0' hex characters of its hex rendering,      *)
(* which is a fixed function of the preimage.  ECDSA is modelled as an     *)
(* ideal signature scheme: a signature names the private key that made it  *)
(* and the bytes it was made over.                                         *)
(***************************************************************************)
EXTENDS Integers, Sequences, FiniteSets, TLC

VARIABLES
    db,                     \* self.db: the LevelDB key-value store
    pending_transactions,   \* self.pending_transactions
    clock,                  \* the last reading of time()
    accepted,               \* number of transactions add_transaction has accepted
    mines,                  \* number of mine_block() calls made on a non-empty queue
    op,                     \* the operation that took the last step
    arg,                    \* its argument
    ret                     \* its outcome: the value returned or the exception raised

vars == <<db, pending_transactions, clock, accepted, mines, op, arg, ret>>

----------------------------------------------------------------------------
(* Bounds of the model *)

MaxAccepted == 3     \* accepted transactions, and mine_block() calls on a non-empty
                     \* queue, explored in one run
HashZeroRange == 6   \* leading-zero counts of a digest range over 0..HashZeroRange-1

(* self.difficulty = 4 *)
difficulty == 4

----------------------------------------------------------------------------
(* Python values *)

None == [none |-> TRUE]

(* the one-character string "0": sender, recipient and previous_hash of genesis *)
ZeroStr == [zeros |-> 1, pre |-> <<>>]

Raise(e) == [kind |-> "raise", error |-> e]
Return(v) == [kind |-> "return", val |-> v]

----------------------------------------------------------------------------
(* Keys and signatures *)

PrivKeys == {"p1", "p2"}
PubKeys == {"K1", "K2"}

PubOf(priv) == IF priv = "p1" THEN "K1" ELSE "K2"
PrivOf(pub) == IF pub = "K1" THEN "p1" ELSE "p2"

Transaction(sender, recipient, amt, sig) ==
    [sender_pubkey |-> sender, recipient_address |-> recipient,
     amount |-> amt, signature |-> sig]

get_data_to_sign(tx) == <<tx.sender_pubkey, tx.recipient_address, tx.amount>>

sign(tx, private_key) ==
    [tx EXCEPT !.signature =
        [kind |-> "sig", by |-> private_key, data |-> get_data_to_sign(tx)]]

verify(tx) ==
    IF tx.signature.kind \in {"none", "empty"} THEN FALSE    \* not self.signature
    ELSE IF tx.sender_pubkey \notin PubKeys THEN FALSE       \* from_string raises
    ELSE IF tx.signature.kind # "sig" THEN FALSE             \* unhexlify / verify raises
    ELSE /\ tx.signature.by = PrivOf(tx.sender_pubkey)
         /\ tx.signature.data = get_data_to_sign(tx)

----------------------------------------------------------------------------
(* Blocks and hashing *)

Block(idx, ts, txs, prev, n, h) ==
    [index |-> idx, timestamp |-> ts, transactions |-> txs,
     previous_hash |-> prev, nonce |-> n, hash |-> h]

StrNum(s) ==
    IF s = "K1" THEN 1 ELSE IF s = "K2" THEN 2 ELSE 0

SigNum(sig) ==
    IF sig.kind = "sig" THEN 1 + StrNum(PubOf(sig.by)) + sig.data[3]
    ELSE IF sig.kind = "junk" THEN 5 ELSE 0

TxNum(tx) ==
    StrNum(tx.sender_pubkey) + 2 * StrNum(tx.recipient_address)
        + 3 * tx.amount + SigNum(tx.signature)

RECURSIVE TxsNum(_)
TxsNum(txs) ==
    IF txs = <<>> THEN 0 ELSE 2 * TxNum(Head(txs)) + 1 + 3 * TxsNum(Tail(txs))

(* the leading '0' characters of the hex digest of a preimage *)
LeadingZeros(pre) ==
    (3 * pre[1] + 2 * pre[2] + TxsNum(pre[3]) + pre[4].zeros + Len(pre[4].pre)
        + pre[5]) % HashZeroRange

tx_dict(tx) ==
    [sender_pubkey |-> tx.sender_pubkey, recipient_address |-> tx.recipient_address,
     amount |-> tx.amount, signature |-> tx.signature]

calculate_hash(block) ==
    LET pre == <<block.index, block.timestamp,
                 [i \in 1..Len(block.transactions) |-> tx_dict(block.transactions[i])],
                 block.previous_hash, block.nonce>>
    IN  [zeros |-> LeadingZeros(pre), pre |-> pre]

(* a prefix one character short *)
startswith_short(h, d) == h.zeros >= d - 1

(* hash.startswith("0" * d) *)
startswith_zeros(h, d) == h.zeros >= d

RECURSIVE pow_loop(_, _)
pow_loop(block, d) ==
    LET b == [block EXCEPT !.hash = calculate_hash(block)]
    IN  IF startswith_zeros(b.hash, d) THEN b
        ELSE pow_loop([b EXCEPT !.nonce = @ + 1], d)

(* proof_of_work without block.nonce = 0: the search starts at the     *)
(* nonce the block came with                                            *)
proof_of_work_noreset(block, d) == pow_loop(block, d)

proof_of_work(block, d) == pow_loop([block EXCEPT !.nonce = 0], d)

----------------------------------------------------------------------------
(* The LevelDB store: block records keyed by hash, and the two pointer keys *)
(* b"last_hash" (read) and b"last_path" (written).                          *)

EmptyBlocks == [k \in {} |-> None]

EmptyDB == [blocks |-> EmptyBlocks, last_hash |-> None, last_path |-> None]

(* db.put(key, value) on a block key *)
db_put(blocks, key, value) ==
    [k \in DOMAIN blocks \cup {key} |-> IF k = key THEN value ELSE blocks[k]]

(* db.get(key) on a block key *)
db_get(blocks, key) ==
    IF key \in DOMAIN blocks THEN blocks[key] ELSE None

(* json.dumps(asdict(block)) *)
asdict(block) ==
    [index |-> block.index, timestamp |-> block.timestamp,
     transactions |-> [i \in 1..Len(block.transactions) |->
                           tx_dict(block.transactions[i])],
     previous_hash |-> block.previous_hash, nonce |-> block.nonce,
     hash |-> block.hash]

(* deserialize_block without nonce=block_data["nonce"]: the dataclass    *)
(* default nonce = 0 is used                                             *)
deserialize_block_nononce(block_data) ==
    Block(block_data.index, block_data.timestamp,
          [i \in 1..Len(block_data.transactions) |->
              Transaction(block_data.transactions[i].sender_pubkey,
                          block_data.transactions[i].recipient_address,
                          block_data.transactions[i].amount,
                          block_data.transactions[i].signature)],
          block_data.previous_hash, 0, block_data.hash)

deserialize_block(block_data) ==
    Block(block_data.index, block_data.timestamp,
          [i \in 1..Len(block_data.transactions) |->
              Transaction(block_data.transactions[i].sender_pubkey,
                          block_data.transactions[i].recipient_address,
                          block_data.transactions[i].amount,
                          block_data.transactions[i].signature)],
          block_data.previous_hash, block_data.nonce, block_data.hash)

save_block(d, block) ==
    [d EXCEPT !.blocks = db_put(d.blocks, block.hash, asdict(block)),
              !.last_path = block.hash]

(* the result is None, a Block, or the exception json.loads(None) raises *)
get_last_block(d) ==
    LET last_hash == d.last_hash
    IN  IF last_hash = None THEN None
        ELSE IF db_get(d.blocks, last_hash) = None THEN Raise("TypeError")
        ELSE deserialize_block(db_get(d.blocks, last_hash))

get_block(d, block_hash) ==
    LET block_data == db_get(d.blocks, block_hash)
    IN  IF block_data # None THEN deserialize_block(block_data) ELSE None

NoSig == [kind |-> "none"]

(* the block _create_genesis_block builds: hashed once, no nonce search *)
genesis_block(now) ==
    LET genesis_tx == Transaction("0", "0", 0, NoSig)
        block == Block(0, now, <<genesis_tx>>, ZeroStr, 0, None)
    IN  [block EXCEPT !.hash = calculate_hash(block)]

create_genesis_block(d, now) == save_block(d, genesis_block(now))

(* the walk without the comparison of the stored and the recomputed hash *)
RECURSIVE validate_walk_nohash(_, _, _)
validate_walk_nohash(d, current_hash, passed) ==
    IF current_hash = None THEN [result |-> TRUE, passed |-> passed]
    ELSE LET block == get_block(d, current_hash)
         IN  IF block = None THEN [result |-> FALSE, passed |-> passed]
             ELSE IF block.index > 0
                     /\ LET prev_block == get_block(d, block.previous_hash)
                        IN  \/ prev_block = None
                            \/ prev_block.index # block.index - 1
                  THEN [result |-> FALSE, passed |-> passed]
             ELSE validate_walk_nohash(d, block.previous_hash, Append(passed, block))

(* the walk of validate_chain: its result, and the blocks that passed every *)
(* check of an iteration, in the order visited                              *)
RECURSIVE validate_walk(_, _, _)
validate_walk(d, current_hash, passed) ==
    IF current_hash = None THEN [result |-> TRUE, passed |-> passed]
    ELSE LET block == get_block(d, current_hash)
         IN  IF block = None THEN [result |-> FALSE, passed |-> passed]
             ELSE IF block.hash # calculate_hash(block)
                  THEN [result |-> FALSE, passed |-> passed]
             ELSE IF block.index > 0
                     /\ LET prev_block == get_block(d, block.previous_hash)
                        IN  \/ prev_block = None
                            \/ prev_block.index # block.index - 1
                  THEN [result |-> FALSE, passed |-> passed]
             ELSE validate_walk(d, block.previous_hash, Append(passed, block))

validate_chain(d) == validate_walk(d, d.last_hash, <<>>).result

----------------------------------------------------------------------------
(* Inputs of the operations *)

(* tx and tx1 of the usage script: each signed by its sender *)
Tx1 == sign(Transaction("K1", "K2", 1, NoSig), "p1")
Tx2 == sign(Transaction("K2", "K1", 2, NoSig), "p2")

(* the transactions a caller may submit: the two above, and an unsigned    *)
(* one, one with an empty and one with a malformed signature, one signed   *)
(* by somebody else, one altered after signing, and one whose sender key   *)
(* does not decode                                                          *)
TxInputs ==
    {Tx1, Tx2,
     Transaction("K1", "K2", 1, NoSig),
     Transaction("K1", "K2", 1, [kind |-> "empty"]),
     Transaction("K1", "K2", 1, [kind |-> "junk"]),
     sign(Transaction("K1", "K2", 1, NoSig), "p2"),
     [Tx1 EXCEPT !.amount = 2],
     sign(Transaction("0", "K2", 1, NoSig), "p1")}

(* the blocks handed to the standalone proof_of_work, some with a nonce    *)
(* left by an earlier search                                                *)
BlockInputs ==
    {Block(2, 1, <<Tx1>>, ZeroStr, n, None) : n \in {0, 3}}

(* the difficulties handed to it: none, the default, and the largest *)
DifficultyInputs == {0, difficulty, HashZeroRange - 1}

NoArg == [noarg |-> TRUE]

----------------------------------------------------------------------------
(* Operations of the controller *)

(* Blockchain(db_path) on the store as it is: a new controller object *)
Blockchain_init ==
    /\ pending_transactions' = <<>>
    /\ db' = IF db.last_hash = None
             THEN db            \* self._create_genesis_block: the method is not called
             ELSE db
    /\ op' = "init" /\ arg' = NoArg /\ ret' = Return(None)
    /\ UNCHANGED <<clock, accepted, mines>>

(* add_transaction without the call of verify *)
add_transaction_noverify(transaction) ==
    /\ accepted < MaxAccepted
    /\ pending_transactions' = Append(pending_transactions, transaction)
    /\ accepted' = accepted + 1
    /\ ret' = Return(None)
    /\ op' = "add_transaction" /\ arg' = transaction
    /\ UNCHANGED <<db, clock, mines>>

add_transaction(transaction) ==
    /\ verify(transaction) => accepted < MaxAccepted
    /\ IF ~verify(transaction)
       THEN /\ ret' = Raise("ValueError")
            /\ UNCHANGED <<pending_transactions, accepted>>
       ELSE /\ pending_transactions' = Append(pending_transactions, transaction)
            /\ accepted' = accepted + 1
            /\ ret' = Return(None)
    /\ op' = "add_transaction" /\ arg' = transaction
    /\ UNCHANGED <<db, clock, mines>>

(* the block mine_block builds and seals on last_block *)
mined_block(last_block, txs, now) ==
    pow_loop(Block(last_block.index + 1, now, txs, last_block.hash, 0, None),
             difficulty)

(* mine_block past its early return: lines 142-163 *)
mine_pending ==
    /\ mines < MaxAccepted
    /\ mines' = mines + 1
    /\ LET last_block == get_last_block(db)
       IN  IF last_block = Raise("TypeError")
           THEN /\ ret' = last_block
                /\ UNCHANGED <<db, pending_transactions, clock>>
           ELSE IF last_block = None
           THEN /\ ret' = Raise("AttributeError")    \* None.index
                /\ UNCHANGED <<db, pending_transactions, clock>>
           ELSE \E now \in {clock, clock + 1} :    \* time()
                LET new_block == mined_block(last_block, pending_transactions, now)
                IN  /\ clock' = now
                    /\ db' = save_block(db, new_block)
                    /\ pending_transactions' = <<>>
                    /\ ret' = Return(new_block)

(* mine_block without its early return on an empty queue *)
mine_block_noguard ==
    /\ op' = "mine_block" /\ arg' = NoArg
    /\ UNCHANGED accepted
    /\ mine_pending

mine_block ==
    /\ op' = "mine_block" /\ arg' = NoArg
    /\ UNCHANGED accepted
    /\ IF pending_transactions = <<>>
       THEN /\ ret' = Return(None)
            /\ UNCHANGED <<db, pending_transactions, clock, mines>>
       ELSE mine_pending

(* the keys a caller looks up: every hash in the store, and one that is not *)
KnownHashes(d) ==
    DOMAIN d.blocks \cup {d.blocks[k].previous_hash : k \in DOMAIN d.blocks}
        \cup {ZeroStr}

call_get_block ==
    \E h \in KnownHashes(db) :
        /\ op' = "get_block" /\ arg' = h
        /\ ret' = Return(get_block(db, h))
        /\ UNCHANGED <<db, pending_transactions, clock, accepted, mines>>

call_get_last_block ==
    /\ op' = "get_last_block" /\ arg' = NoArg
    /\ ret' = LET b == get_last_block(db)
              IN  IF b = Raise("TypeError") THEN b ELSE Return(b)
    /\ UNCHANGED <<db, pending_transactions, clock, accepted, mines>>

call_validate_chain ==
    /\ op' = "validate_chain" /\ arg' = NoArg
    /\ ret' = Return(validate_chain(db))
    /\ UNCHANGED <<db, pending_transactions, clock, accepted, mines>>

call_proof_of_work ==
    \E b \in BlockInputs, d \in DifficultyInputs :
        /\ op' = "proof_of_work" /\ arg' = [block |-> b, difficulty |-> d]
        /\ ret' = Return(proof_of_work(b, d))
        /\ UNCHANGED <<db, pending_transactions, clock, accepted, mines>>

Submit == \E tx \in TxInputs : add_transaction(tx)

----------------------------------------------------------------------------
(* The program on a fresh store: blockchain = Blockchain() on an empty     *)
(* directory                                                                *)

Init ==
    /\ db = EmptyDB
    /\ pending_transactions = <<>>
    /\ clock = 1
    /\ accepted = 0
    /\ mines = 0
    /\ op = "init" /\ arg = NoArg /\ ret = Return(None)

Next ==
    \/ Blockchain_init
    \/ Submit
    \/ mine_block
    \/ call_get_block
    \/ call_get_last_block
    \/ call_validate_chain
    \/ call_proof_of_work

Spec == Init /\ [][Next]_vars

----------------------------------------------------------------------------
(* The program on a store that exists already.  Blockchain(db_path) opens  *)
(* the directory with create_if_missing=True, so what the directory holds  *)
(* is an input of the constructor.  The stores explored are the empty one  *)
(* and chains in the record format the readers expect: block records under *)
(* their hashes and the tip's hash under b"last_hash", the key that        *)
(* get_last_block and validate_chain read.                                  *)

put_block(d, block) ==
    [d EXCEPT !.blocks = db_put(d.blocks, block.hash, asdict(block)),
              !.last_hash = block.hash]

(* genesis with a nonce search *)
SealedGenesis == pow_loop(genesis_block(0), difficulty)

(* the empty store, a store holding genesis as _create_genesis_block hashes *)
(* it, and a two-block chain on a sealed genesis                            *)
StoreInputs ==
    {EmptyDB,
     put_block(EmptyDB, genesis_block(0)),
     put_block(put_block(EmptyDB, SealedGenesis),
               mined_block(SealedGenesis, <<Tx2>>, 0))}

InitStore ==
    /\ db \in StoreInputs
    /\ pending_transactions = <<>>
    /\ clock = 1
    /\ accepted = 0
    /\ mines = 0
    /\ op = "init" /\ arg = NoArg /\ ret = Return(None)

SpecStore == InitStore /\ [][Next]_vars

----------------------------------------------------------------------------
(* The store written to behind the controller's back: one hashed field of  *)
(* one record of the chain is changed and the record's hash is left as it  *)
(* was.                                                                     *)

Consistent(record) == record.hash = calculate_hash(deserialize_block(record))

Untampered(d) == \A k \in DOMAIN d.blocks : Consistent(d.blocks[k])

(* the keys of the records met by following previous_hash from b"last_hash" *)
RECURSIVE TipChainFrom(_, _, _)
TipChainFrom(d, h, seen) ==
    IF h = None \/ h \in seen \/ h \notin DOMAIN d.blocks THEN seen
    ELSE TipChainFrom(d, d.blocks[h].previous_hash, seen \cup {h})

TipChain(d) == TipChainFrom(d, d.last_hash, {})

TamperedRecords(d, k) ==
    LET r == d.blocks[k]
    IN  {[r EXCEPT !.transactions = t] :
            t \in {<<>>, <<tx_dict(Tx1)>>, <<tx_dict([Tx2 EXCEPT !.amount = 9])>>}
                      \ {r.transactions}}
        \cup {[r EXCEPT !.index = @ + 1], [r EXCEPT !.timestamp = @ + 1],
              [r EXCEPT !.nonce = @ + 1]}
        \cup {[r EXCEPT !.previous_hash = h] :
                 h \in (DOMAIN d.blocks \cup {ZeroStr}) \ {r.previous_hash}}

Tamper ==
    /\ Untampered(db)
    /\ \E k \in TipChain(db) : \E r \in TamperedRecords(db, k) :
           /\ db' = [db EXCEPT !.blocks[k] = r]
           /\ arg' = k
    /\ op' = "tamper" /\ ret' = Return(None)
    /\ UNCHANGED <<pending_transactions, clock, accepted, mines>>

(* the store, the writes behind the controller's back, and the readers *)
NextTamper ==
    \/ Tamper
    \/ Blockchain_init
    \/ call_get_block
    \/ call_get_last_block
    \/ call_validate_chain

SpecTamper == InitStore /\ [][NextTamper]_vars

----------------------------------------------------------------------------
(* Properties *)

IsBlock(x) == "index" \in DOMAIN x

(* the last step was a mine_block() that returned a block *)
MinedOK == op = "mine_block" /\ ret.kind = "return" /\ IsBlock(ret.val)

WalkOf(d) == validate_walk(d, d.last_hash, <<>>)

(* C1: on a fresh store, after n calls of mine_block() on a non-empty      *)
(* queue (n >= 1; `mines` counts them, each follows an accepted            *)
(* add_transaction) the tip exists, its index is n, and validate_chain()   *)
(* is true.                                                                 *)
C1_ChainIntegrityAfterMining ==
    mines >= 1 =>
        LET tip == get_last_block(db)
        IN  IsBlock(tip) /\ tip.index = mines /\ validate_chain(db)

(* C2: once the controller is constructed the tip is never absent, and     *)
(* before anything is mined it is the genesis block: index 0,              *)
(* previous_hash "0", one transaction from "0" to "0" of amount 0.         *)
C2_GenesisOnInit ==
    LET tip == get_last_block(db)
    IN  /\ IsBlock(tip)
        /\ mines = 0 =>
               /\ tip.index = 0
               /\ tip.previous_hash = ZeroStr
               /\ tip.transactions = <<Transaction("0", "0", 0, NoSig)>>

(* C3: right after _save_block(b), here the one mine_block() makes,        *)
(* get_block(b.hash) is b and the tip get_last_block() reads is b.         *)
C3_PutBlockSetsTip ==
    MinedOK =>
        /\ get_block(db, ret.val.hash) = ret.val
        /\ get_last_block(db) = ret.val

(* C4: mine_block() on a non-empty queue returns a block with              *)
(* index = tip.index + 1 and previous_hash = tip.hash for the tip before   *)
(* the call, whose transactions are the queue in order; that block is the  *)
(* new tip and the queue is empty afterwards.                               *)
C4_MineBuildsOnTip ==
    [][(op' = "mine_block" /\ pending_transactions # <<>>) =>
        LET tip == get_last_block(db)
        IN  /\ ret'.kind = "return" /\ IsBlock(ret'.val)
            /\ IsBlock(tip)
            /\ ret'.val.index = tip.index + 1
            /\ ret'.val.previous_hash = tip.hash
            /\ ret'.val.transactions = pending_transactions
            /\ get_last_block(db') = ret'.val
            /\ pending_transactions' = <<>>]_vars

(* C5: mine_block() on an empty queue returns None, raises nothing, and    *)
(* leaves the store (pointer keys and every record) and the queue as they  *)
(* were.                                                                    *)
C5_EmptyMineNoOp ==
    [][(op' = "mine_block" /\ pending_transactions = <<>>) =>
        /\ ret' = Return(None)
        /\ db' = db
        /\ pending_transactions' = pending_transactions]_vars

C5_Witness ==
    /\ op = "mine_block" /\ ret = Return(None)
    /\ pending_transactions = <<>>
    /\ mines >= 1
    /\ Cardinality(DOMAIN db.blocks) >= 2

(* C6: add_transaction(tx) raises ValueError when tx.verify() is false,    *)
(* as it is for every tx without a signature, and then changes neither the *)
(* queue nor the store; when tx.verify() is true it appends tx at the end  *)
(* of the queue and changes nothing else.  So every queued transaction     *)
(* verifies.                                                                *)
C6_SubmitVerifies ==
    /\ [][op' = "add_transaction" =>
            /\ arg'.signature = NoSig => ~verify(arg')
            /\ IF verify(arg')
               THEN /\ ret' = Return(None)
                    /\ pending_transactions' = Append(pending_transactions, arg')
               ELSE /\ ret' = Raise("ValueError")
                    /\ pending_transactions' = pending_transactions
            /\ db' = db]_vars
    /\ [](\A i \in 1..Len(pending_transactions) : verify(pending_transactions[i]))

C6_Witness ==
    /\ op = "add_transaction" /\ ret = Raise("ValueError")
    /\ arg.signature = NoSig
    /\ Len(pending_transactions) = 2
    /\ DOMAIN db.blocks # {}

(* a record of the chain from the tip whose hashed fields no longer give   *)
(* its stored hash                                                          *)
TamperedInChain(d) == \E k \in TipChain(d) : ~Consistent(d.blocks[k])

(* C7: when a record of the chain from the tip had a hashed field changed  *)
(* without its hash being recomputed, validate_chain() is false and the    *)
(* walk lets no such record pass.                                           *)
C7_TamperDetected ==
    TamperedInChain(db) =>
        /\ ~WalkOf(db).result
        /\ \A i \in 1..Len(WalkOf(db).passed) :
               WalkOf(db).passed[i].hash = calculate_hash(WalkOf(db).passed[i])
        /\ op = "validate_chain" => ret = Return(FALSE)

C7_Witness ==
    /\ op = "validate_chain" /\ ret = Return(FALSE)
    /\ Cardinality(TipChain(db)) = 2
    /\ \E k \in TipChain(db) :
           /\ ~Consistent(db.blocks[k])
           /\ db.blocks[k].hash = k
           /\ db.blocks[k].index = 0
           /\ db.blocks[k].transactions # <<tx_dict(Transaction("0", "0", 0, NoSig))>>

(* C8: every block that passes an iteration of the walk of                 *)
(* validate_chain() has a hash with at least `difficulty` leading '0'      *)
(* characters: a record whose stored hash is its recomputed hash but falls *)
(* short of the difficulty stops the walk.                                  *)
C8_WalkChecksDifficulty ==
    op = "validate_chain" =>
        \A i \in 1..Len(WalkOf(db).passed) :
            startswith_zeros(WalkOf(db).passed[i].hash, difficulty)

(* C9: validate_chain() returns true only when the walk from the tip       *)
(* ended at genesis: some block was walked, and the last one has index 0   *)
(* and previous_hash "0".                                                  *)
C9_TrueOnlyAtGenesis ==
    (op = "validate_chain" /\ ret = Return(TRUE)) =>
        LET passed == WalkOf(db).passed
        IN  /\ Len(passed) >= 1
            /\ passed[Len(passed)].index = 0
            /\ passed[Len(passed)].previous_hash = ZeroStr

(* C10: the block a nonce search returns, from proof_of_work(block, d) and *)
(* from mine_block() at the configured difficulty, has a hash with at      *)
(* least d leading '0' characters, and that hash is the hash of the        *)
(* block's final fields, nonce included.                                    *)
C10_PowValid ==
    /\ op = "proof_of_work" =>
           /\ ret.val.hash.zeros >= arg.difficulty
           /\ ret.val.hash = calculate_hash(ret.val)
    /\ MinedOK =>
           /\ ret.val.hash.zeros >= difficulty
           /\ ret.val.hash = calculate_hash(ret.val)

C10_Witness ==
    /\ MinedOK
    /\ ret.val.nonce > 0
    /\ Len(ret.val.transactions) = 2

(* C11: every block record of the store, the genesis record included, has  *)
(* a stored hash equal to the hash recomputed from its other fields, and   *)
(* that hash has at least `difficulty` leading '0' characters.             *)
C11_StoredBlocksSealed ==
    \A k \in DOMAIN db.blocks :
        /\ Consistent(db.blocks[k])
        /\ startswith_zeros(db.blocks[k].hash, difficulty)

(* the keys met by following previous_hash from the tip pointer, in order, *)
(* up to a key that is unset or was met before                              *)
RECURSIVE ChainKeysFrom(_, _, _)
ChainKeysFrom(d, h, keys) ==
    IF h = None \/ h \notin DOMAIN d.blocks
           \/ (\E i \in 1..Len(keys) : keys[i] = h)
    THEN keys
    ELSE ChainKeysFrom(d, d.blocks[h].previous_hash, Append(keys, h))

ChainKeys(d) == ChainKeysFrom(d, d.last_hash, <<>>)

(* C12: in every state after construction, the links from the tip reach    *)
(* the block of index 0 in exactly tip.index + 1 steps: every block met    *)
(* exists, the indices fall by one at each step, the last block met has    *)
(* previous_hash "0", and no block is met twice.                           *)
C12_ChainStructure ==
    LET keys == ChainKeys(db)
        n == Len(keys)
    IN  /\ db.last_hash # None
        /\ n >= 1
        /\ n = db.blocks[keys[1]].index + 1
        /\ \A i \in 1..n : db.blocks[keys[i]].index = n - i
        /\ db.blocks[keys[n]].previous_hash = ZeroStr

(* the records of index 0 *)
GenesisKeys(d) == {k \in DOMAIN d.blocks : d.blocks[k].index = 0}

(* C13: constructing the controller again on a store that was initialised  *)
(* before adds no record, leaves the tip pointer as it was, and the store  *)
(* then holds exactly one block of index 0.                                 *)
C13_IdempotentGenesis ==
    [][op' = "init" =>
        /\ db'.blocks = db.blocks
        /\ db'.last_hash = db.last_hash
        /\ Cardinality(GenesisKeys(db')) = 1]_vars


(* the controller is Idle when its queue is empty and Pending otherwise *)
Idle(q) == q = <<>>

(* C14: an accepted add_transaction ends in Pending; a rejected one leaves *)
(* the queue as it was; mine_block in Idle stays Idle; mine_block in       *)
(* Pending returns a block, never an error, and ends in Idle; the reads    *)
(* leave the queue as it was.                                              *)
C14_IdlePendingMachine ==
    [][/\ (op' = "add_transaction" /\ ret'.kind = "return")
              => ~Idle(pending_transactions')
       /\ (op' = "add_transaction" /\ ret'.kind = "raise")
              => pending_transactions' = pending_transactions
       /\ (op' = "mine_block" /\ Idle(pending_transactions))
              => Idle(pending_transactions')
       /\ (op' = "mine_block" /\ ~Idle(pending_transactions))
              => (ret'.kind = "return" /\ Idle(pending_transactions'))
       /\ (op' \in {"get_block", "get_last_block", "validate_chain",
                    "proof_of_work"})
              => pending_transactions' = pending_transactions]_vars


C16_PowSmallestNonce ==
    /\ op = "proof_of_work" =>
          LET b == arg.block
              r == ret.val
          IN  /\ r.index = b.index
              /\ r.timestamp = b.timestamp
              /\ r.transactions = b.transactions
              /\ r.previous_hash = b.previous_hash
              /\ r.nonce >= 0
              /\ startswith_zeros(calculate_hash(r), arg.difficulty)
              /\ \A n \in 0..(r.nonce - 1) :
                    ~startswith_zeros(calculate_hash([b EXCEPT !.nonce = n]),
                                      arg.difficulty)
    /\ MinedOK =>
          \A n \in 0..(ret.val.nonce - 1) :
              ~startswith_zeros(calculate_hash([ret.val EXCEPT !.nonce = n]),
                                difficulty)

(* a block that came with nonce 3 and is returned with a smaller nonce     *)
(* found after failed attempts                                             *)
C16_Witness ==
    /\ op = "proof_of_work"
    /\ arg.block.nonce = 3
    /\ ret.val.nonce > 0
    /\ ret.val.nonce < 3


(* no step changes or removes a record the store already holds *)
RecordsKept ==
    \A k \in DOMAIN db.blocks :
        k \in DOMAIN db'.blocks /\ db'.blocks[k] = db.blocks[k]

(* the step adds exactly one record, the block just returned *)
OneRecordAdded ==
    /\ DOMAIN db'.blocks = DOMAIN db.blocks \cup {ret'.val.hash}
    /\ Cardinality(DOMAIN db'.blocks) = Cardinality(DOMAIN db.blocks) + 1
    /\ db'.blocks[ret'.val.hash] = asdict(ret'.val)

(* C17: no operation changes or removes a record the store holds; a        *)
(* mine_block that returns a block adds exactly one record and changes no  *)
(* other key than the tip pointer b"last_hash"; every other operation,     *)
(* a later add_transaction included, leaves the store as it was.           *)
C17_PersistedImmutable ==
    [][/\ RecordsKept
       /\ IF op' = "mine_block" /\ ret'.kind = "return" /\ IsBlock(ret'.val)
          THEN /\ OneRecordAdded
               /\ db'.last_path = db.last_path
          ELSE db' = db]_vars


(* q is a prefix of r *)
IsPrefix(q, r) ==
    Len(q) <= Len(r) /\ \A i \in 1..Len(q) : r[i] = q[i]

(* C18: a queued transaction stays queued, in submission order, until a    *)
(* mine_block returns a block; that block is then reachable from the tip   *)
(* and holds exactly the queued transactions in their order, it is the     *)
(* only block the step adds, and the queue is emptied so that no later     *)
(* block holds them again.                                                 *)
C18_AcceptedMinedOnce ==
    [][/\ (op' = "mine_block" /\ ~Idle(pending_transactions)
               /\ ret'.kind = "return")
              => /\ IsBlock(ret'.val)
                 /\ ret'.val.hash \in TipChain(db')
                 /\ db'.blocks[ret'.val.hash].transactions =
                        [i \in 1..Len(pending_transactions) |->
                            tx_dict(pending_transactions[i])]
                 /\ DOMAIN db'.blocks \ DOMAIN db.blocks = {ret'.val.hash}
                 /\ pending_transactions' = <<>>
       /\ (op' \notin {"mine_block", "init"}
               \/ (op' = "mine_block" /\ ret'.kind = "raise"))
              => /\ IsPrefix(pending_transactions, pending_transactions')
                 /\ db'.blocks = db.blocks]_vars

(* no two records of the store have the same index *)
UniqueIndices(d) ==
    \A k1, k2 \in DOMAIN d.blocks :
        d.blocks[k1].index = d.blocks[k2].index => k1 = k2

(* C19: no two records ever have the same index; a mine_block that returns *)
(* a block raises the index of the tip by exactly one and builds on a tip  *)
(* no earlier mine_block built on; no step lowers the index of the tip.    *)
C19_SerializedMining ==
    [][/\ UniqueIndices(db')
       /\ (op' = "mine_block" /\ ret'.kind = "return" /\ IsBlock(ret'.val))
              => /\ get_last_block(db').index = get_last_block(db).index + 1
                 /\ \A k \in DOMAIN db.blocks :
                        db.blocks[k].previous_hash # ret'.val.previous_hash
       /\ IsBlock(get_last_block(db))
              => /\ IsBlock(get_last_block(db'))
                 /\ get_last_block(db').index >= get_last_block(db).index]_vars

====
